---------------------------- MODULE Spec2Model ----------------------------
(* A model of pkg/proxy.go: the LdapProxy backend registry, the per-     *)
(* connection session, the Bind / Search / Whoami handlers, the static    *)
(* deny handlers and the two prometheus metric vectors.                    *)
EXTENDS Integers, Sequences, FiniteSets, TLC

(***************************************************************************)
(* Bounds of the model.                                                    *)
(***************************************************************************)
MaxSessions == 2   \* sessions created by Connect
MaxOps == 4        \* calls of the proxy's methods in one behaviour
MaxAdd == 2        \* backends passed to one AddBackend call
MaxRequests == 2   \* requests handed to the concurrent workers

(***************************************************************************)
(* Result codes, errors and input domains.                                 *)
(***************************************************************************)
ResultSuccess == "Success"
ResultInvalidCredentials == "InvalidCredentials"
ResultInsufficientAccessRights == "InsufficientAccessRights"
ResultUnwillingToPerform == "UnwillingToPerform"
NoCode == "none"   \* the handler returned a nil response, or no response type

nil == "nil"
errInvalidSessionType == "proxy: Invalid session type"

\* req.DN and req.Password of a BindRequest; both may be empty
DNs == {"", "u1", "u2"}
Passwords == {"", "p"}
\* req.Filter of a SearchRequest
Filters == {"f1", "f2"}

\* a context that is not a *session
BadCtx == 0

(***************************************************************************)
(* Users returned by backends. A string is a sequence of bytes.            *)
(***************************************************************************)
U1 == [DN |-> "uid=u1", Attributes |-> [cn |-> << <<117, 49>> >>]]
U2 == [DN |-> "uid=u2", Attributes |-> [cn |-> << <<117, 50>> >>, mail |-> << <<97>>, <<98>> >>]]
U3 == [DN |-> "uid=u3", Attributes |-> [cn |-> << >>]]

(***************************************************************************)
(* The backends the environment can register. A backend is an object with  *)
(* a name, the credentials it authenticates, and per filter the users it   *)
(* returns or the error it fails with.                                     *)
(***************************************************************************)
BkA == [id |-> "A", name |-> "a",
        auth |-> {<<"u1", "p">>},
        users |-> [f \in Filters |-> <<U1>>],
        err |-> [f \in Filters |-> nil]]
BkAnon == [id |-> "Anon", name |-> "a",
           auth |-> {<<"", "">>, <<"u2", "p">>},
           users |-> [f \in Filters |-> << >>],
           err |-> [f \in Filters |-> nil]]
BkB == [id |-> "B", name |-> "b",
        auth |-> {<<"u1", "p">>, <<"u2", "p">>},
        users |-> [f \in Filters |-> IF f = "f1" THEN <<U2, U3>> ELSE <<U1>>],
        err |-> [f \in Filters |-> nil]]
BkBErr == [id |-> "BErr", name |-> "b",
           auth |-> {},
           users |-> [f \in Filters |-> IF f = "f1" THEN << >> ELSE <<U2>>],
           err |-> [f \in Filters |-> IF f = "f1" THEN "errB" ELSE nil]]
BkC == [id |-> "C", name |-> "c",
        auth |-> {<<"u2", "p">>},
        users |-> [f \in Filters |-> <<U3>>],
        err |-> [f \in Filters |-> IF f = "f1" THEN "errC" ELSE nil]]

Backends == {BkA, BkAnon, BkB, BkBErr, BkC}

\* the Backend interface
Name(backend) == backend.name
Authenticate(backend, dn, password) == <<dn, password>> \in backend.auth
GetUsers(backend, filter) ==
    [users |-> backend.users[filter], err |-> backend.err[filter]]

(***************************************************************************)
(* State.                                                                  *)
(***************************************************************************)
VARIABLES
    backends,               \* LdapProxy.backends: name -> Backend
    sessions,               \* the sessions made by Connect: id -> [dn]
    requestsTotal,          \* counter vector, by action
    backendActionDuration,  \* number of observations, by <<action, backend>>
    last,                   \* the last handler invocation and what it returned
    ops,                    \* calls of the proxy's methods so far
    closed,                 \* the sessions Disconnect was called with
    inflight                \* per session, the request its worker is serving

vars == <<backends, sessions, requestsTotal, backendActionDuration, last, ops,
          closed, inflight>>

Actions == {"connect", "disconnect", "bind", "add", "delete", "extended",
            "modify", "modify_dn", "modify_password", "search", "whoami"}
BackendActions == {"auth", "search"}
BackendNames == {Name(b) : b \in Backends}

\* what a handler invocation is recorded as
Returned(op, ctx, pre, a1, a2, code, matchedDN, results, ident, err, calls) ==
    [op |-> op, ctx |-> ctx, pre |-> pre, a1 |-> a1, a2 |-> a2,
     code |-> code, matchedDN |-> matchedDN, results |-> results,
     ident |-> ident, err |-> err, calls |-> calls]

NoOp == Returned("none", BadCtx, "", "", "", NoCode, "", << >>, "", nil, << >>)

\* (mutant) a context Disconnect was called with is no session any more
IsSessionOpen(ctx) == ctx \in DOMAIN sessions \ closed

\* ctx.(*session): ok exactly for the contexts Connect returned
IsSession(ctx) == ctx \in DOMAIN sessions
Contexts == DOMAIN sessions \cup {BadCtx}

\* requestsTotal.With(Labels{"action": a}).Inc()
Inc(a) == [requestsTotal EXCEPT ![a] = @ + 1]

\* (mutant) the duration is observed only after a call that succeeded
RECURSIVE ObserveOk(_, _, _)
ObserveOk(hist, a, calls) ==
    IF calls = << >> THEN hist
    ELSE ObserveOk(IF Head(calls).ok
                   THEN [hist EXCEPT ![<<a, Name(Head(calls).backend)>>] = @ + 1]
                   ELSE hist,
                   a, Tail(calls))

\* timer.ObserveDuration() of each backend call in calls, under action a
RECURSIVE Observe(_, _, _)
Observe(hist, a, calls) ==
    IF calls = << >> THEN hist
    ELSE Observe([hist EXCEPT ![<<a, Name(Head(calls).backend)>>] = @ + 1],
                 a, Tail(calls))

\* the orders in which a range over the map can visit its keys
Orders(m) ==
    {o \in [1..Cardinality(DOMAIN m) -> DOMAIN m] :
        \A i, j \in DOMAIN o : i # j => o[i] # o[j]}

Init ==
    /\ backends = << >>
    /\ sessions = << >>
    /\ requestsTotal = [a \in Actions |-> 0]
    /\ backendActionDuration = [k \in BackendActions \X BackendNames |-> 0]
    /\ last = NoOp
    /\ ops = 0
    /\ closed = {}
    /\ inflight = << >>

(***************************************************************************)
(* AddBackend                                                              *)
(***************************************************************************)
\* (mutant) a name already registered keeps its backend
RECURSIVE RegisterFirstWins(_, _)
RegisterFirstWins(m, bs) ==
    IF bs = << >> THEN m
    ELSE LET bkend == Head(bs)
             m1 == [n \in DOMAIN m \cup {Name(bkend)} |->
                        IF n \in DOMAIN m THEN m[n] ELSE bkend]
         IN RegisterFirstWins(m1, Tail(bs))

\* for _, bkend := range backends { proxy.backends[bkend.Name()] = bkend }
RECURSIVE Register(_, _)
Register(m, bs) ==
    IF bs = << >> THEN m
    ELSE LET bkend == Head(bs)
             m1 == [n \in DOMAIN m \cup {Name(bkend)} |->
                        IF n = Name(bkend) THEN bkend ELSE m[n]]
         IN Register(m1, Tail(bs))

AddBackend ==
    /\ ops < MaxOps
    /\ \E n \in 0..MaxAdd : \E bs \in [1..n -> Backends] :
          /\ backends' = Register(backends, bs)
          \* a1 notes whether the call replaced a registered backend
          /\ last' = Returned("add_backend", BadCtx, "",
                              IF \E nm \in DOMAIN backends :
                                    Register(backends, bs)[nm] # backends[nm]
                              THEN "replaced" ELSE "",
                              "", NoCode, "", << >>, "", nil, << >>)
    /\ ops' = ops + 1
    /\ UNCHANGED <<sessions, requestsTotal, backendActionDuration, closed, inflight>>

(***************************************************************************)
(* Connect / Disconnect                                                    *)
(***************************************************************************)
Connect ==
    /\ ops < MaxOps
    /\ Cardinality(DOMAIN sessions) < MaxSessions
    /\ LET id == Cardinality(DOMAIN sessions) + 1
       IN /\ sessions' = [s \in DOMAIN sessions \cup {id} |->
                             IF s = id THEN [dn |-> ""] ELSE sessions[s]]
          /\ last' = Returned("connect", id, "", "", "", NoCode, "", << >>,
                              "", nil, << >>)
    /\ requestsTotal' = Inc("connect")
    /\ ops' = ops + 1
    /\ UNCHANGED <<backends, backendActionDuration, closed, inflight>>

\* (mutant) Disconnect clears the bound identity of the session
DisconnectClears ==
    /\ ops < MaxOps
    /\ \E ctx \in Contexts :
          IF ~IsSession(ctx)
          THEN /\ last' = Returned("disconnect", ctx, "", "", "", NoCode, "",
                                   << >>, "", nil, << >>)
               /\ UNCHANGED <<requestsTotal, closed, sessions>>
          ELSE /\ last' = Returned("disconnect", ctx, sessions[ctx].dn, "", "",
                                   NoCode, "", << >>, "", nil, << >>)
               /\ requestsTotal' = Inc("disconnect")
               /\ closed' = closed \cup {ctx}
               /\ sessions' = [sessions EXCEPT ![ctx].dn = ""]
    /\ ops' = ops + 1
    /\ UNCHANGED <<backends, backendActionDuration, inflight>>

Disconnect ==
    /\ ops < MaxOps
    /\ \E ctx \in Contexts :
          IF ~IsSession(ctx)
          THEN /\ last' = Returned("disconnect", ctx, "", "", "", NoCode, "",
                                   << >>, "", nil, << >>)
               /\ UNCHANGED <<requestsTotal, closed>>
          ELSE /\ last' = Returned("disconnect", ctx, sessions[ctx].dn, "", "",
                                   NoCode, "", << >>, "", nil, << >>)
               /\ requestsTotal' = Inc("disconnect")
               /\ closed' = closed \cup {ctx}
    /\ ops' = ops + 1
    /\ UNCHANGED <<backends, sessions, backendActionDuration, inflight>>

(***************************************************************************)
(* Bind                                                                    *)
(***************************************************************************)
\* (mutant) the bound identity is not reset before the loop
BindStartKeep(sess) ==
    [dn |-> sess.dn, code |-> ResultInvalidCredentials, matchedDN |-> "",
     calls |-> << >>]

\* (mutant) the response starts from the zero value of its code, Success
BindStartZero(sess) ==
    [dn |-> "", code |-> ResultSuccess, matchedDN |-> "", calls |-> << >>]

\* the response and the session identity before the loop over the backends
BindStart(sess) ==
    [dn |-> "", code |-> ResultInvalidCredentials, matchedDN |-> "",
     calls |-> << >>]

\* one backend call of Bind
AuthCall(backend, req) ==
    [fn |-> "Authenticate", backend |-> backend, a1 |-> req.DN,
     a2 |-> req.Password, ok |-> Authenticate(backend, req.DN, req.Password)]

\* (mutant) the loop gives up at the first backend that does not authenticate
BindLoopFirstOnly(m, order, i, req, st) ==
    IF i > Len(order) THEN st
    ELSE LET call == AuthCall(m[order[i]], req)
             st1 == [st EXCEPT !.calls = Append(@, call)]
         IN IF call.ok
            THEN [st1 EXCEPT !.dn = req.DN, !.code = ResultSuccess,
                             !.matchedDN = req.DN]
            ELSE st1

\* (mutant) no break: the loop goes on after a backend authenticated
RECURSIVE BindLoopNoBreak(_, _, _, _, _)
BindLoopNoBreak(m, order, i, req, st) ==
    IF i > Len(order) THEN st
    ELSE LET call == AuthCall(m[order[i]], req)
             st1 == [st EXCEPT !.calls = Append(@, call)]
         IN IF call.ok
            THEN BindLoopNoBreak(m, order, i + 1, req,
                     [st1 EXCEPT !.dn = req.DN, !.code = ResultSuccess,
                                 !.matchedDN = req.DN])
            ELSE BindLoopNoBreak(m, order, i + 1, req, st1)

\* (mutant) MatchedDN names the backend that authenticated
RECURSIVE BindLoopMatchedBackend(_, _, _, _, _)
BindLoopMatchedBackend(m, order, i, req, st) ==
    IF i > Len(order) THEN st
    ELSE LET call == AuthCall(m[order[i]], req)
             st1 == [st EXCEPT !.calls = Append(@, call)]
         IN IF call.ok
            THEN [st1 EXCEPT !.dn = req.DN, !.code = ResultSuccess,
                             !.matchedDN = Name(m[order[i]])]
            ELSE BindLoopMatchedBackend(m, order, i + 1, req, st1)

\* for _, backend := range serverBackend.backends, from the i-th key of order
RECURSIVE BindLoop(_, _, _, _, _)
BindLoop(m, order, i, req, st) ==
    IF i > Len(order) THEN st
    ELSE LET call == AuthCall(m[order[i]], req)
             st1 == [st EXCEPT !.calls = Append(@, call)]
         IN IF call.ok
            THEN [st1 EXCEPT !.dn = req.DN, !.code = ResultSuccess,
                             !.matchedDN = req.DN]
            ELSE BindLoop(m, order, i + 1, req, st1)

\* (mutant) the bound identity is kept in one place for all the sessions
BindShared ==
    /\ ops < MaxOps
    /\ \E ctx \in Contexts, dn \in DNs, pw \in Passwords :
          LET req == [DN |-> dn, Password |-> pw]
          IN IF ~IsSession(ctx)
             THEN /\ last' = Returned("bind", ctx, "", dn, pw, NoCode, "",
                                      << >>, "", errInvalidSessionType, << >>)
                  /\ UNCHANGED <<sessions, requestsTotal, backendActionDuration>>
             ELSE \E order \in Orders(backends) :
                     LET st == BindLoop(backends, order, 1, req,
                                        BindStart(sessions[ctx]))
                     IN /\ sessions' = [s \in DOMAIN sessions |-> [dn |-> st.dn]]
                        /\ requestsTotal' = Inc("bind")
                        /\ backendActionDuration' =
                               Observe(backendActionDuration, "auth", st.calls)
                        /\ last' = Returned("bind", ctx, sessions[ctx].dn, dn,
                                            pw, st.code, st.matchedDN, << >>,
                                            "", nil, st.calls)
    /\ ops' = ops + 1
    /\ UNCHANGED <<backends, closed, inflight>>

Bind ==
    /\ ops < MaxOps
    /\ \E ctx \in Contexts, dn \in DNs, pw \in Passwords :
          LET req == [DN |-> dn, Password |-> pw]
          IN IF ~IsSession(ctx)
             THEN /\ last' = Returned("bind", ctx, "", dn, pw, NoCode, "",
                                      << >>, "", errInvalidSessionType, << >>)
                  /\ UNCHANGED <<sessions, requestsTotal, backendActionDuration>>
             ELSE \E order \in Orders(backends) :
                     LET st == BindLoop(backends, order, 1, req,
                                        BindStart(sessions[ctx]))
                     IN /\ sessions' = [sessions EXCEPT ![ctx].dn = st.dn]
                        /\ requestsTotal' = Inc("bind")
                        /\ backendActionDuration' =
                               Observe(backendActionDuration, "auth", st.calls)
                        /\ last' = Returned("bind", ctx, sessions[ctx].dn, dn,
                                            pw, st.code, st.matchedDN, << >>,
                                            "", nil, st.calls)
    /\ ops' = ops + 1
    /\ UNCHANGED <<backends, closed, inflight>>

(***************************************************************************)
(* Add, Delete, ExtendedRequest, Modify, ModifyDN, PasswordModify          *)
(***************************************************************************)
\* (mutant) ExtendedRequest answers with the zero value of the code, Success
DenyZero(action) ==
    IF action = "modify_password" THEN [code |-> NoCode, err |-> nil]
    ELSE IF action = "extended" THEN [code |-> ResultSuccess, err |-> nil]
    ELSE [code |-> ResultUnwillingToPerform, err |-> nil]

\* the fixed response of a handler that serves nothing
Deny(action) ==
    IF action = "modify_password"
    THEN [code |-> NoCode, err |-> nil]
    ELSE [code |-> ResultUnwillingToPerform, err |-> nil]

Static(op, action) ==
    /\ ops < MaxOps
    /\ \E ctx \in Contexts :
          last' = Returned(op, ctx, IF IsSession(ctx) THEN sessions[ctx].dn ELSE "",
                           "", "", Deny(action).code, "", << >>, "",
                           Deny(action).err, << >>)
    /\ requestsTotal' = Inc(action)
    /\ ops' = ops + 1
    /\ UNCHANGED <<backends, sessions, backendActionDuration, closed, inflight>>

Add == Static("add", "add")
Delete == Static("delete", "delete")
ExtendedRequest == Static("extended", "extended")
Modify == Static("modify", "modify")
ModifyDN == Static("modify_dn", "modify_dn")
PasswordModify == Static("modify_password", "modify_password")

(***************************************************************************)
(* Search                                                                  *)
(***************************************************************************)
\* (mutant) the search is never refused
SearchDeniedNever(sess) == FALSE

\* sess.dn == "": the search is refused
SearchDenied(sess) == sess.dn = ""

\* []byte(value)
Bytes(value) == [i \in DOMAIN value |-> value[i] % 256]

\* a User as a SearchResult
ConvertUser(user) ==
    [DN |-> user.DN,
     Attributes |-> [key \in DOMAIN user.Attributes |->
                        [v \in DOMAIN user.Attributes[key] |->
                            Bytes(user.Attributes[key][v])]]]

ConvertUsers(users) == [u \in DOMAIN users |-> ConvertUser(users[u])]

\* one backend call of Search
UsersCall(backend, req) ==
    [fn |-> "GetUsers", backend |-> backend, a1 |-> req.Filter, a2 |-> "",
     ok |-> GetUsers(backend, req.Filter).err = nil]

\* (mutant) a failing backend is skipped and the others' results are returned
RECURSIVE SearchLoopSkipErr(_, _, _, _, _)
SearchLoopSkipErr(m, order, i, req, st) ==
    IF i > Len(order) THEN [st EXCEPT !.code = ResultSuccess]
    ELSE LET backend == m[order[i]]
             got == GetUsers(backend, req.Filter)
             st1 == [st EXCEPT !.calls = Append(@, UsersCall(backend, req))]
         IN IF got.err # nil
            THEN SearchLoopSkipErr(m, order, i + 1, req, st1)
            ELSE SearchLoopSkipErr(m, order, i + 1, req,
                     [st1 EXCEPT !.results = @ \o ConvertUsers(got.users)])

\* (mutant) a user whose DN is already in the results is left out
RECURSIVE SearchLoopDedup(_, _, _, _, _)
SearchLoopDedup(m, order, i, req, st) ==
    IF i > Len(order) THEN [st EXCEPT !.code = ResultSuccess]
    ELSE LET backend == m[order[i]]
             got == GetUsers(backend, req.Filter)
             st1 == [st EXCEPT !.calls = Append(@, UsersCall(backend, req))]
             seen == {st.results[k].DN : k \in DOMAIN st.results}
             fresh == SelectSeq(ConvertUsers(got.users),
                                LAMBDA r : r.DN \notin seen)
         IN IF got.err # nil
            THEN [st1 EXCEPT !.err = got.err, !.results = << >>,
                             !.code = NoCode]
            ELSE SearchLoopDedup(m, order, i + 1, req,
                     [st1 EXCEPT !.results = @ \o fresh])

\* (mutant) a backend that returns no user fails the search
RECURSIVE SearchLoopErrOnEmpty(_, _, _, _, _)
SearchLoopErrOnEmpty(m, order, i, req, st) ==
    IF i > Len(order) THEN [st EXCEPT !.code = ResultSuccess]
    ELSE LET backend == m[order[i]]
             got == GetUsers(backend, req.Filter)
             st1 == [st EXCEPT !.calls = Append(@, UsersCall(backend, req))]
         IN IF got.err # nil \/ got.users = << >>
            THEN [st1 EXCEPT !.err = IF got.err # nil THEN got.err ELSE "no users",
                             !.results = << >>, !.code = NoCode]
            ELSE SearchLoopErrOnEmpty(m, order, i + 1, req,
                     [st1 EXCEPT !.results = @ \o ConvertUsers(got.users)])

\* for _, backend := range serverBackend.backends, from the i-th key of order
RECURSIVE SearchLoop(_, _, _, _, _)
SearchLoop(m, order, i, req, st) ==
    IF i > Len(order) THEN [st EXCEPT !.code = ResultSuccess]
    ELSE LET backend == m[order[i]]
             got == GetUsers(backend, req.Filter)
             st1 == [st EXCEPT !.calls = Append(@, UsersCall(backend, req))]
         IN IF got.err # nil
            THEN [st1 EXCEPT !.err = got.err, !.results = << >>,
                             !.code = NoCode]
            ELSE SearchLoop(m, order, i + 1, req,
                     [st1 EXCEPT !.results = @ \o ConvertUsers(got.users)])

SearchStart == [code |-> NoCode, results |-> << >>, err |-> nil, calls |-> << >>]

Search ==
    /\ ops < MaxOps
    /\ \E ctx \in Contexts, filter \in Filters :
          LET req == [Filter |-> filter]
          IN IF ~IsSession(ctx)
             THEN /\ last' = Returned("search", ctx, "", filter, "", NoCode, "",
                                      << >>, "", errInvalidSessionType, << >>)
                  /\ UNCHANGED <<requestsTotal, backendActionDuration>>
             ELSE IF SearchDenied(sessions[ctx])
             THEN /\ last' = Returned("search", ctx, sessions[ctx].dn, filter,
                                      "", ResultInsufficientAccessRights, "",
                                      << >>, "", nil, << >>)
                  /\ requestsTotal' = Inc("search")
                  /\ UNCHANGED backendActionDuration
             ELSE \E order \in Orders(backends) :
                     LET st == SearchLoop(backends, order, 1, req, SearchStart)
                     IN /\ last' = Returned("search", ctx, sessions[ctx].dn,
                                            filter, "", st.code, "", st.results,
                                            "", st.err, st.calls)
                        /\ requestsTotal' = Inc("search")
                        /\ backendActionDuration' =
                               Observe(backendActionDuration, "search", st.calls)
    /\ ops' = ops + 1
    /\ UNCHANGED <<backends, sessions, closed, inflight>>

(***************************************************************************)
(* Whoami                                                                  *)
(***************************************************************************)
\* (mutant) Whoami answers with the empty identity
WhoamiIdentAnon(sess) == ""

\* the identity Whoami returns for a session
WhoamiIdent(sess) == sess.dn

\* (mutant) Whoami does not check the type of its context
WhoamiNoCheck ==
    /\ ops < MaxOps
    /\ \E ctx \in Contexts :
          /\ last' = Returned("whoami", ctx,
                              IF IsSession(ctx) THEN sessions[ctx].dn ELSE "",
                              "", "", NoCode, "", << >>,
                              IF IsSession(ctx) THEN WhoamiIdent(sessions[ctx])
                              ELSE "",
                              nil, << >>)
          /\ requestsTotal' = Inc("whoami")
    /\ ops' = ops + 1
    /\ UNCHANGED <<backends, sessions, backendActionDuration, closed, inflight>>

Whoami ==
    /\ ops < MaxOps
    /\ \E ctx \in Contexts :
          IF ~IsSession(ctx)
          THEN /\ last' = Returned("whoami", ctx, "", "", "", NoCode, "", << >>,
                                   "", errInvalidSessionType, << >>)
               /\ UNCHANGED requestsTotal
          ELSE /\ last' = Returned("whoami", ctx, sessions[ctx].dn, "", "",
                                   NoCode, "", << >>,
                                   WhoamiIdent(sessions[ctx]), nil, << >>)
               /\ requestsTotal' = Inc("whoami")
    /\ ops' = ops + 1
    /\ UNCHANGED <<backends, sessions, backendActionDuration, closed, inflight>>

Next ==
    \/ AddBackend
    \/ Connect
    \/ Disconnect
    \/ Bind
    \/ Add
    \/ Delete
    \/ ExtendedRequest
    \/ Modify
    \/ ModifyDN
    \/ PasswordModify
    \/ Search
    \/ Whoami

Spec == Init /\ [][Next]_vars

(***************************************************************************)
(* One method call on an arbitrary proxy: the registry and the sessions    *)
(* are drawn from every value of their types, then one method is called.   *)
(***************************************************************************)
Registries ==
    UNION {{m \in [N -> Backends] : \A n \in N : Name(m[n]) = n} :
              N \in SUBSET BackendNames}

InitAny ==
    /\ backends \in Registries
    /\ \E n \in 0..MaxSessions : sessions \in [1..n -> [dn : DNs]]
    /\ requestsTotal = [a \in Actions |-> 0]
    /\ backendActionDuration = [k \in BackendActions \X BackendNames |-> 0]
    /\ last = NoOp
    /\ ops = MaxOps - 1
    /\ closed = {}
    /\ inflight = << >>

SpecAny == InitAny /\ [][Next]_vars

(***************************************************************************)
(* The workers. Each connection has a worker that serves the connection's  *)
(* requests one at a time; the workers of different connections run        *)
(* concurrently. A handler is cut at its backend calls: a call may return, *)
(* or never return. The registry was filled before serving began.          *)
(***************************************************************************)
Idle == [pc |-> "idle", op |-> "none", a1 |-> "", a2 |-> "", order |-> << >>,
         i |-> 0, code |-> NoCode, err |-> nil, ident |-> "",
         results |-> << >>, calls |-> << >>, made |-> 0, beside |-> {}]

InitConc ==
    /\ \E k \in 0..MaxAdd : \E bs \in [1..k -> Backends] :
          backends = Register(<< >>, bs)
    /\ sessions = [s \in 1..MaxSessions |-> [dn |-> ""]]
    /\ requestsTotal = [a \in Actions |-> IF a = "connect" THEN MaxSessions ELSE 0]
    /\ backendActionDuration = [k \in BackendActions \X BackendNames |-> 0]
    /\ last = NoOp
    /\ ops = 0
    /\ closed = {}
    /\ inflight = [s \in 1..MaxSessions |-> Idle]

\* the sessions whose worker waits in a backend call that never returns
Hung == {t \in DOMAIN inflight : inflight[t].pc = "hung"}

\* the transport hands the next request of connection s to its worker
Receive(s) ==
    /\ ops < MaxRequests
    /\ inflight[s].pc = "idle"
    /\ \/ \E dn \in DNs, pw \in Passwords :
             inflight' = [inflight EXCEPT ![s] =
                             [Idle EXCEPT !.pc = "received", !.op = "bind",
                                          !.a1 = dn, !.a2 = pw]]
       \/ \E filter \in Filters :
             inflight' = [inflight EXCEPT ![s] =
                             [Idle EXCEPT !.pc = "received", !.op = "search",
                                          !.a1 = filter]]
       \/ inflight' = [inflight EXCEPT ![s] =
                          [Idle EXCEPT !.pc = "received", !.op = "whoami"]]
    /\ ops' = ops + 1
    /\ UNCHANGED <<backends, sessions, requestsTotal, backendActionDuration,
                   last, closed>>

\* the handler's result: the worker is idle again; of the request and the
\* calls it made only the operation and the number of calls are kept
Finished(req, code, err, ident, results, calls) ==
    [Idle EXCEPT !.op = req.op, !.code = code, !.err = err, !.ident = ident,
                 !.results = results, !.made = Len(calls),
                 !.beside = req.beside]

\* the handler is in its loop, in the call of the i-th backend of order
Waiting(req, order, i, results, calls) ==
    [req EXCEPT !.pc = "wait", !.order = order, !.i = i, !.results = results,
                !.calls = calls]

\* (mutant) the handlers run under one lock of the proxy
StartLocked(s) ==
    /\ inflight[s].pc = "received"
    /\ \A t \in DOMAIN inflight : inflight[t].pc \notin {"wait", "hung"}
    /\ LET req == [inflight[s] EXCEPT !.beside = Hung]
       IN \/ /\ req.op = "whoami"
             /\ inflight' = [inflight EXCEPT ![s] =
                    Finished(req, NoCode, nil, WhoamiIdent(sessions[s]),
                             << >>, << >>)]
             /\ UNCHANGED sessions
          \/ /\ req.op = "bind"
             /\ sessions' = [sessions EXCEPT ![s].dn = BindStart(sessions[s]).dn]
             /\ \E order \in Orders(backends) :
                   inflight' = [inflight EXCEPT ![s] =
                       IF order = << >>
                       THEN Finished(req, BindStart(sessions[s]).code, nil, "",
                                     << >>, << >>)
                       ELSE Waiting(req, order, 1, << >>, << >>)]
          \/ /\ req.op = "search"
             /\ UNCHANGED sessions
             /\ IF SearchDenied(sessions[s])
                THEN inflight' = [inflight EXCEPT ![s] =
                        Finished(req, ResultInsufficientAccessRights, nil, "",
                                 << >>, << >>)]
                ELSE \E order \in Orders(backends) :
                        inflight' = [inflight EXCEPT ![s] =
                            IF order = << >>
                            THEN Finished(req, ResultSuccess, nil, "", << >>,
                                          << >>)
                            ELSE Waiting(req, order, 1, << >>, << >>)]
    /\ requestsTotal' = Inc(inflight[s].op)
    /\ UNCHANGED <<backends, backendActionDuration, last, ops, closed>>

\* the worker of s runs the handler up to its first backend call, or to its
\* end when it makes none
Start(s) ==
    /\ inflight[s].pc = "received"
    /\ LET req == [inflight[s] EXCEPT !.beside = Hung]
       IN \/ /\ req.op = "whoami"
             /\ inflight' = [inflight EXCEPT ![s] =
                    Finished(req, NoCode, nil, WhoamiIdent(sessions[s]),
                             << >>, << >>)]
             /\ UNCHANGED sessions
          \/ /\ req.op = "bind"
             /\ sessions' = [sessions EXCEPT ![s].dn = BindStart(sessions[s]).dn]
             /\ \E order \in Orders(backends) :
                   inflight' = [inflight EXCEPT ![s] =
                       IF order = << >>
                       THEN Finished(req, BindStart(sessions[s]).code, nil, "",
                                     << >>, << >>)
                       ELSE Waiting(req, order, 1, << >>, << >>)]
          \/ /\ req.op = "search"
             /\ UNCHANGED sessions
             /\ IF SearchDenied(sessions[s])
                THEN inflight' = [inflight EXCEPT ![s] =
                        Finished(req, ResultInsufficientAccessRights, nil, "",
                                 << >>, << >>)]
                ELSE \E order \in Orders(backends) :
                        inflight' = [inflight EXCEPT ![s] =
                            IF order = << >>
                            THEN Finished(req, ResultSuccess, nil, "", << >>,
                                          << >>)
                            ELSE Waiting(req, order, 1, << >>, << >>)]
    /\ requestsTotal' = Inc(inflight[s].op)
    /\ UNCHANGED <<backends, backendActionDuration, last, ops, closed>>

\* the backend call the worker of s waits in returns: the handler runs on to
\* its next backend call, or to its end
Return(s) ==
    /\ inflight[s].pc = "wait"
    /\ LET req == inflight[s]
           backend == backends[req.order[req.i]]
           more == req.i < Len(req.order)
       IN \/ /\ req.op = "bind"
             /\ LET call == AuthCall(backend, [DN |-> req.a1, Password |-> req.a2])
                    calls == Append(req.calls, call)
                IN /\ backendActionDuration' =
                          Observe(backendActionDuration, "auth", <<call>>)
                   /\ IF call.ok
                      THEN /\ sessions' = [sessions EXCEPT ![s].dn = req.a1]
                           /\ inflight' = [inflight EXCEPT ![s] =
                                  Finished(req, ResultSuccess, nil, "", << >>,
                                           calls)]
                      ELSE /\ UNCHANGED sessions
                           /\ inflight' = [inflight EXCEPT ![s] =
                                  IF more
                                  THEN Waiting(req, req.order, req.i + 1, << >>,
                                               calls)
                                  ELSE Finished(req, ResultInvalidCredentials,
                                                nil, "", << >>, calls)]
          \/ /\ req.op = "search"
             /\ LET call == UsersCall(backend, [Filter |-> req.a1])
                    got == GetUsers(backend, req.a1)
                    calls == Append(req.calls, call)
                    results == req.results \o ConvertUsers(got.users)
                IN /\ backendActionDuration' =
                          Observe(backendActionDuration, "search", <<call>>)
                   /\ UNCHANGED sessions
                   /\ inflight' = [inflight EXCEPT ![s] =
                          IF got.err # nil
                          THEN Finished(req, NoCode, got.err, "", << >>, calls)
                          ELSE IF more
                          THEN Waiting(req, req.order, req.i + 1, results, calls)
                          ELSE Finished(req, ResultSuccess, nil, "", results,
                                        calls)]
    /\ UNCHANGED <<backends, requestsTotal, last, ops, closed>>

\* the backend call the worker of s waits in never returns
Hang(s) ==
    /\ inflight[s].pc = "wait"
    /\ inflight' = [inflight EXCEPT ![s].pc = "hung"]
    /\ UNCHANGED <<backends, sessions, requestsTotal, backendActionDuration,
                   last, ops, closed>>

NextConc ==
    \/ \E s \in DOMAIN inflight : Receive(s)
    \/ \E s \in DOMAIN inflight : Start(s)
    \/ \E s \in DOMAIN inflight : Return(s)
    \/ \E s \in DOMAIN inflight : Hang(s)

\* each worker is a goroutine that is scheduled again and again, and a backend
\* call that is not one that never returns does return
FairConc ==
    \A s \in 1..MaxSessions : WF_vars(Start(s)) /\ WF_vars(Return(s))

SpecConc == InitConc /\ [][NextConc]_vars /\ FairConc

(***************************************************************************)
(* Properties                                                              *)
(***************************************************************************)
\* the last call was op, made with a context that is a session
Did(op) == last.op = op /\ IsSession(last.ctx)

\* the registered backends that authenticate dn with password
Authenticating(dn, password) ==
    {n \in DOMAIN backends : Authenticate(backends[n], dn, password)}

\* the registered backends whose GetUsers fails for filter
Failing(filter) ==
    {n \in DOMAIN backends : GetUsers(backends[n], filter).err # nil}

\* the backends called, in order
Called == [i \in DOMAIN last.calls |-> Name(last.calls[i].backend)]

\* no backend was called twice
CalledOnce == \A i, j \in DOMAIN last.calls : i # j => Called[i] # Called[j]

\* every registered backend was called, each once, and it is the registered one
CalledAll ==
    /\ CalledOnce
    /\ {Called[i] : i \in DOMAIN Called} = DOMAIN backends
    /\ \A i \in DOMAIN last.calls : last.calls[i].backend = backends[Called[i]]

\* C1: a Search on a session whose bound identity is empty returns
\* InsufficientAccessRights with no results and no error, and calls no backend.
C1_SearchUnauthenticatedDenied ==
    [][(ops' # ops /\ last'.op = "search" /\ IsSession(last'.ctx)
            /\ sessions[last'.ctx].dn = "") =>
          /\ last'.code = ResultInsufficientAccessRights
          /\ last'.results = << >>
          /\ last'.err = nil
          /\ last'.calls = << >>
          /\ backendActionDuration' = backendActionDuration
      ]_vars

C1_Witness ==
    /\ Did("search") /\ last.pre = ""
    /\ DOMAIN backends # {}
    /\ requestsTotal["bind"] > 0

\* C2: when exactly one registered backend authenticates (dn, pw), Bind returns
\* Success and the session's bound identity is dn, for every iteration order
\* and every prior session state.
C2_BindOneBackendSucceeds ==
    (Did("bind") /\ Cardinality(Authenticating(last.a1, last.a2)) = 1) =>
        /\ last.code = ResultSuccess
        /\ last.err = nil
        /\ sessions[last.ctx].dn = last.a1

C2_Witness ==
    /\ Did("bind") /\ Cardinality(Authenticating(last.a1, last.a2)) = 1
    /\ Len(last.calls) = 2
    /\ last.pre # "" /\ last.pre # last.a1

\* C3: when no registered backend authenticates, Bind returns
\* InvalidCredentials and the bound identity is empty afterwards, also when the
\* session was authenticated before; a Search on that session is then refused.
C3_BindFailureClearsIdentity ==
    (Did("bind") /\ Authenticating(last.a1, last.a2) = {}) =>
        /\ last.code = ResultInvalidCredentials
        /\ last.err = nil
        /\ sessions[last.ctx].dn = ""
        /\ SearchDenied(sessions[last.ctx])

C3_Witness ==
    /\ Did("bind") /\ Authenticating(last.a1, last.a2) = {}
    /\ last.pre # ""
    /\ last.calls # << >>

\* C4: whenever Bind returns Success the session is authenticated afterwards
\* (its bound identity is not empty and a Search on it is not refused), for
\* every dn and credential including the empty ones; whenever Bind does not
\* return Success the bound identity is empty.
C4_BindSuccessAuthenticates ==
    Did("bind") =>
        IF last.code = ResultSuccess
        THEN /\ sessions[last.ctx].dn # ""
             /\ ~SearchDenied(sessions[last.ctx])
        ELSE sessions[last.ctx].dn = ""

\* C5: Add, Delete, Modify, ModifyDN and ExtendedRequest return
\* UnwillingToPerform with no error in every state, and call no backend.
C5_MutatingOperationsDenied ==
    [][(ops' # ops /\ last'.op \in {"add", "delete", "modify", "modify_dn",
                                     "extended"}) =>
          /\ last'.code = ResultUnwillingToPerform
          /\ last'.err = nil
          /\ last'.calls = << >>
          /\ backendActionDuration' = backendActionDuration
      ]_vars

C5_Witness ==
    /\ Did("extended")
    /\ last.pre # ""
    /\ DOMAIN backends # {}

\* C6: a Search on an authenticated session for which a registered backend's
\* GetUsers fails returns the error of the backend it stopped at and no
\* response: no results of any backend, no backend called after the failing
\* one, none called twice.
C6_SearchAbortsOnBackendError ==
    (Did("search") /\ last.pre # "" /\ Failing(last.a1) # {}) =>
        /\ last.err # nil
        /\ last.code = NoCode
        /\ last.results = << >>
        /\ last.calls # << >>
        /\ CalledOnce
        /\ \A i \in DOMAIN last.calls :
              /\ last.calls[i].backend = backends[Called[i]]
              /\ last.calls[i].a1 = last.a1
              /\ IF i = Len(last.calls)
                 THEN last.err = GetUsers(last.calls[i].backend, last.a1).err
                 ELSE GetUsers(last.calls[i].backend, last.a1).err = nil

C6_Witness ==
    /\ Did("search") /\ last.pre # "" /\ Failing(last.a1) # {}
    /\ Len(last.calls) = 2
    /\ GetUsers(last.calls[1].backend, last.a1).users # << >>

\* the users the called backends return for filter, in the order of the calls
RECURSIVE UsersOf(_, _)
UsersOf(calls, filter) ==
    IF calls = << >> THEN << >>
    ELSE GetUsers(Head(calls).backend, filter).users \o UsersOf(Tail(calls), filter)

\* C7: a Search on an authenticated session where no backend fails calls every
\* registered backend once with the request's filter and returns Success with
\* one SearchResult per returned User, of the same DN, in the order of the
\* backends called and then of each backend's users, duplicates kept.
C7_SearchAggregates ==
    (Did("search") /\ last.pre # "" /\ Failing(last.a1) = {}) =>
        /\ last.code = ResultSuccess
        /\ last.err = nil
        /\ CalledAll
        /\ \A i \in DOMAIN last.calls :
              last.calls[i].fn = "GetUsers" /\ last.calls[i].a1 = last.a1
        /\ LET users == UsersOf(last.calls, last.a1)
           IN /\ Len(last.results) = Len(users)
              /\ \A k \in DOMAIN users : last.results[k].DN = users[k].DN

C7_Witness ==
    /\ Did("search") /\ last.pre # "" /\ Failing(last.a1) = {}
    /\ Len(last.calls) = 2
    /\ Len(last.results) = 2
    /\ last.results[1].DN = last.results[2].DN

\* C8: with no backend registered, every Bind returns InvalidCredentials and
\* leaves the bound identity empty, and a Search on an authenticated session
\* returns Success with an empty result list and no error.
C8_EmptyRegistry ==
    DOMAIN backends = {} =>
        /\ Did("bind") =>
              /\ last.code = ResultInvalidCredentials
              /\ last.err = nil
              /\ sessions[last.ctx].dn = ""
        /\ (Did("search") /\ last.pre # "") =>
              /\ last.code = ResultSuccess
              /\ last.results = << >>
              /\ last.err = nil

C8_Witness ==
    /\ DOMAIN backends = {}
    /\ Did("search") /\ last.pre # ""

\* C9: in one Bind each registered backend is asked at most once, no backend
\* is asked after one authenticated, and when none authenticates every
\* registered backend has been asked exactly once.
C9_BindShortCircuits ==
    Did("bind") =>
        /\ CalledOnce
        /\ \A i \in DOMAIN last.calls :
              /\ last.calls[i].fn = "Authenticate"
              /\ last.calls[i].backend = backends[Called[i]]
              /\ last.calls[i].a1 = last.a1 /\ last.calls[i].a2 = last.a2
              /\ i < Len(last.calls) => ~last.calls[i].ok
        /\ last.code # ResultSuccess => CalledAll

C9_Witness ==
    /\ Did("bind") /\ last.code = ResultSuccess
    /\ Len(last.calls) = 1
    /\ Cardinality(DOMAIN backends) = 2
    /\ Cardinality(Authenticating(last.a1, last.a2)) = 2

\* C10: Whoami on a session returns the session's bound identity with no error
\* (the empty string when unauthenticated) and leaves every session unchanged;
\* two Whoami calls in a row on a session return the same identity.
C10_WhoamiReturnsIdentity ==
    [][(ops' # ops /\ last'.op = "whoami" /\ IsSession(last'.ctx)) =>
          /\ last'.ident = sessions[last'.ctx].dn
          /\ last'.err = nil
          /\ sessions' = sessions
          /\ (Did("whoami") /\ last.ctx = last'.ctx) => last'.ident = last.ident
      ]_vars

C10_Witness ==
    /\ Did("whoami")
    /\ requestsTotal["whoami"] = 2
    /\ Cardinality(DOMAIN sessions) = 1

\* a step that is one call of a method of the proxy
Step == ops' # ops

\* the step is a call of op with a context that is a session
StepOn(op) == Step /\ last'.op = op /\ IsSession(last'.ctx)

\* C11: a session's bound identity is written only by Bind: Connect makes a
\* session with the empty identity, and every call that is not a Bind leaves
\* the bound identity of every session as it was, whatever its outcome.
C11_IdentityWrittenOnlyByBind ==
    [][(Step /\ last'.op # "bind") =>
          /\ \A s \in DOMAIN sessions :
                s \in DOMAIN sessions' /\ sessions'[s].dn = sessions[s].dn
          /\ \A s \in DOMAIN sessions' \ DOMAIN sessions :
                last'.op = "connect" /\ s = last'.ctx /\ sessions'[s].dn = ""
      ]_vars

C11_Witness ==
    /\ Did("search") /\ last.err # nil
    /\ sessions[last.ctx].dn # ""

\* C12 as claimed: after Disconnect on a session no later Bind, Search or
\* Whoami on that session is processed: none is counted, authenticates the
\* session, calls a backend or returns an identity.
C12_NothingProcessedAfterDisconnect ==
    [][(Step /\ last'.op \in {"bind", "search", "whoami"} /\ last'.ctx \in closed) =>
          /\ requestsTotal' = requestsTotal
          /\ backendActionDuration' = backendActionDuration
          /\ sessions' = sessions
          /\ last'.code \notin {ResultSuccess, ResultInvalidCredentials,
                                ResultInsufficientAccessRights}
          /\ last'.ident = ""
      ]_vars

\* C12 as amended: Disconnect counts the request and changes no session and no
\* backend; the proxy keeps no closed state, so a later Bind, Search or Whoami
\* with the context of a disconnected session is processed as on any session:
\* it is counted, never fails with the invalid session type, Whoami returns the
\* bound identity, Search is refused exactly on an empty identity and Bind
\* succeeds exactly when a registered backend authenticates.
C12_DisconnectKeepsSession ==
    [][/\ StepOn("disconnect") =>
             /\ sessions' = sessions /\ backends' = backends
             /\ requestsTotal' = Inc("disconnect")
       /\ (Step /\ last'.op \in {"bind", "search", "whoami"}
                /\ last'.ctx \in closed) =>
             /\ last'.err # errInvalidSessionType
             /\ requestsTotal' = Inc(last'.op)
             /\ last'.op = "whoami" => last'.ident = sessions[last'.ctx].dn
             /\ last'.op = "search" =>
                   (last'.code = ResultInsufficientAccessRights
                       <=> sessions[last'.ctx].dn = "")
             /\ last'.op = "bind" =>
                   /\ last'.code = ResultSuccess
                         <=> Authenticating(last'.a1, last'.a2) # {}
                   /\ last'.code = ResultSuccess
                         => sessions'[last'.ctx].dn = last'.a1
      ]_vars

C12_Witness ==
    /\ Did("bind") /\ last.ctx \in closed
    /\ last.code = ResultSuccess
    /\ sessions[last.ctx].dn # ""

ContextOps == {"bind", "search", "whoami", "add", "delete", "modify",
               "modify_dn", "extended", "modify_password"}

\* C14 as claimed: every operation called with a context that Connect did not
\* make fails with the invalid session type error and calls no backend.
C14_BadContextAlwaysFails ==
    (last.op \in ContextOps /\ last.ctx = BadCtx) =>
        /\ last.err = errInvalidSessionType
        /\ last.calls = << >>

\* C14 as amended: Bind, Search and Whoami called with a context that Connect
\* did not make fail with the invalid session type error and no response, which
\* is not the InvalidCredentials response of a failed authentication; Add,
\* Delete, Modify, ModifyDN, ExtendedRequest and PasswordModify do not look at
\* the context and return their fixed response with no error. None of them
\* calls a backend or changes a session.
C14_BadContext ==
    [][(Step /\ last'.op \in ContextOps /\ last'.ctx = BadCtx) =>
          /\ sessions' = sessions
          /\ backendActionDuration' = backendActionDuration
          /\ last'.calls = << >>
          /\ IF last'.op \in {"bind", "search", "whoami"}
             THEN /\ last'.err = errInvalidSessionType
                  /\ last'.err # nil
                  /\ last'.code = NoCode
                  /\ last'.ident = ""
             ELSE /\ last'.err = nil
                  /\ last'.code = IF last'.op = "modify_password" THEN NoCode
                                  ELSE ResultUnwillingToPerform
      ]_vars

C14_Witness ==
    /\ last.op = "search" /\ last.ctx = BadCtx
    /\ \E s \in DOMAIN sessions : sessions[s].dn # ""

\* C15: every call of every operation adds exactly one to the request counter
\* of its own kind, when it is allowed, denied or ends in an error, and changes
\* no other counter.
C15_EveryCallCounted ==
    [][(Step /\ last'.op \in Actions) => requestsTotal' = Inc(last'.op)]_vars

\* the last backend of bs named n
LastNamed(bs, n) ==
    bs[CHOOSE i \in DOMAIN bs :
          /\ Name(bs[i]) = n
          /\ \A j \in DOMAIN bs : Name(bs[j]) = n => j <= i]

\* C16: the registry holds one backend per name, under its own name;
\* AddBackend applied to a registry that AddBackend left sets each name it is
\* given to the last backend given with that name and leaves the other names
\* alone; Bind and Search call only backends
\* that are in the registry, so never a replaced one.
C16_LastRegistrationWins ==
    /\ \A n \in DOMAIN backends : Name(backends[n]) = n
    /\ last.op \in {"bind", "search"} =>
          \A i \in DOMAIN last.calls :
             /\ Called[i] \in DOMAIN backends
             /\ last.calls[i].backend = backends[Called[i]]
    /\ last.op = "add_backend" =>
       \A k \in 0..MaxAdd : \A bs \in [1..k -> Backends] :
          LET registered == Register(backends, bs)
              given == {Name(bs[i]) : i \in DOMAIN bs}
          IN /\ DOMAIN registered = DOMAIN backends \cup given
             /\ \A n \in DOMAIN registered :
                   registered[n] = IF n \in given THEN LastNamed(bs, n)
                                   ELSE backends[n]

\* an AddBackend call has replaced the backend registered under "a" by BkAnon
C16_Witness ==
    /\ last.op = "add_backend" /\ last.a1 = "replaced"
    /\ "a" \in DOMAIN backends /\ backends["a"] = BkAnon

\* C17: Bind on a session returns no error and the code Success or
\* InvalidCredentials, and asks the next backend after one that does not
\* authenticate; Search on an authenticated session returns an error exactly
\* when a backend it called failed.
C17_BindNeverErrsSearchMay ==
    /\ Did("bind") =>
          /\ last.err = nil
          /\ last.code \in {ResultSuccess, ResultInvalidCredentials}
          /\ \A i \in DOMAIN last.calls :
                (~last.calls[i].ok /\ Len(last.calls) < Cardinality(DOMAIN backends))
                    => i < Len(last.calls)
    /\ (Did("search") /\ last.pre # "") =>
          /\ last.err # nil <=>
                \E i \in DOMAIN last.calls :
                   GetUsers(last.calls[i].backend, last.a1).err # nil
          /\ last.err # nil =>
                \E i \in DOMAIN last.calls :
                   GetUsers(last.calls[i].backend, last.a1).err = last.err

C17_Witness ==
    /\ Did("bind") /\ last.code = ResultSuccess
    /\ Len(last.calls) = 2
    /\ last.calls[1].backend = BkBErr

\* the calls in calls made to the backend named n
CallsTo(calls, n) ==
    Cardinality({i \in DOMAIN calls : Name(calls[i].backend) = n})

\* C18: every backend call of a Bind or a Search adds one observation under
\* (auth or search, the backend's name), whether the call succeeded or not, and
\* nothing else adds an observation.
C18_EveryBackendCallObserved ==
    [][Step =>
          \A n \in BackendNames :
             /\ backendActionDuration'[<<"auth", n>>] =
                   backendActionDuration[<<"auth", n>>]
                   + IF last'.op = "bind" THEN CallsTo(last'.calls, n) ELSE 0
             /\ backendActionDuration'[<<"search", n>>] =
                   backendActionDuration[<<"search", n>>]
                   + IF last'.op = "search" THEN CallsTo(last'.calls, n) ELSE 0
      ]_vars

C18_Witness ==
    /\ Did("search") /\ last.err # nil
    /\ Len(last.calls) = 2
    /\ backendActionDuration[<<"search", Called[1]>>] = 1
    /\ backendActionDuration[<<"search", Called[2]>>] = 1
    /\ \E n \in BackendNames : backendActionDuration[<<"auth", n>>] = 0

\* C20: what Bind returns does not depend on the order the registry is
\* iterated in: every order gives the code, the MatchedDN (dn on success, empty
\* on failure) and the bound identity that the Bind gave.
C20_BindOrderIndependent ==
    Did("bind") =>
        /\ last.matchedDN = IF last.code = ResultSuccess THEN last.a1 ELSE ""
        /\ \A order \in Orders(backends) :
              LET st == BindLoop(backends, order, 1,
                                 [DN |-> last.a1, Password |-> last.a2],
                                 BindStart([dn |-> last.pre]))
              IN /\ st.code = last.code
                 /\ st.matchedDN = last.matchedDN
                 /\ st.dn = sessions[last.ctx].dn

C20_Witness ==
    /\ Did("bind") /\ last.code = ResultSuccess
    /\ Cardinality(Authenticating(last.a1, last.a2)) = 2
    /\ Len(last.calls) = 1

\* C19: a backend call that never returns stalls only the Bind or Search that
\* made it: every request a worker has received is served to its end unless
\* one of its own backend calls never returns, whatever the other workers wait
\* in; and a Bind or Search makes at most one call per registered backend.
C19_HangStallsOnlyItsRequest ==
    /\ \A s \in 1..MaxSessions :
          (inflight[s].pc \in {"received", "wait"})
              ~> (inflight[s].pc \in {"idle", "hung"})
    /\ [](\A s \in DOMAIN inflight :
             /\ inflight[s].made <= Cardinality(DOMAIN backends)
             /\ Len(inflight[s].calls) + (IF inflight[s].pc \in {"wait", "hung"}
                                          THEN 1 ELSE 0)
                   <= Cardinality(DOMAIN backends)
             /\ \A i, j \in DOMAIN inflight[s].calls :
                   i # j => inflight[s].calls[i].backend # inflight[s].calls[j].backend)

C19_Witness ==
    \E s \in DOMAIN inflight :
        /\ inflight[s].pc = "idle" /\ inflight[s].op = "bind"
        /\ inflight[s].beside # {} /\ inflight[s].beside \subseteq Hung
        /\ inflight[s].made = 2
        /\ inflight[s].code = ResultSuccess

=============================================================================
